---- MODULE Spec2Model ----
(***************************************************************************)
(* A model of gym_miniworld/envs/remotebot.py: the RemoteBot environment,  *)
(* its ZMQ PAIR socket, and recv_array, the decoder of the array replies.  *)
(*                                                                         *)
(* The caller is one thread.  A reset or step call writes one command,     *)
(* then blocks in recv_json and in recv; the model cuts a call at these    *)
(* blocking points, so that the remote endpoint can act in between.        *)
(* Every socket operation may raise (zmq.ZMQError, an interrupted blocking *)
(* call): the outcome is a nondeterministic choice.                        *)
(***************************************************************************)
EXTENDS Integers, Sequences, FiniteSets, TLC

(***************************************************************************)
(* Bounds of the model.                                                    *)
(***************************************************************************)
\* Calls (reset, step, render, close) made after the constructor.
MaxCalls == 3
\* Largest byte value of a payload of the codec specification.
MaxByte == 1
\* Longest payload of the codec specification.
MaxPayloadLen == 4
\* Largest entry of a shape of the codec specification.
MaxDim == 2
\* Longest shape of the codec specification.
MaxRank == 2
MaxReward == 2

(***************************************************************************)
(* recv_array: numpy.frombuffer and ndarray.reshape as the code calls them. *)
(***************************************************************************)
\* numpy's element sizes, in bytes, of the dtype names the model draws.
\* Any other name makes numpy.dtype raise TypeError.
ItemSize == [uint8 |-> 1, uint16 |-> 2, float32 |-> 4]

\* An array that was not produced: the error a call raised instead.  Errors
\* carry the names of the specification's taxonomy: "UnsupportedElementType"
\* is numpy's TypeError, "SizeMismatch" the ValueError of frombuffer or
\* reshape, "InvalidAction" the ValueError of the enumeration lookup,
\* "ConnectionError" an error of the socket (zmq.ZMQError, an interrupted
\* blocking call), "MalformedHeader" the error of recv_json on a message that
\* is no JSON text.
Failure(err) == [error |-> err, dtype |-> "none", shape |-> <<>>, data |-> <<>>]

RECURSIVE Product(_)
Product(s) == IF s = <<>> THEN 1 ELSE Head(s) * Product(Tail(s))

\* The elements of a buffer: itemsize bytes each, in order.
Elements(buf, itemsize) ==
    [i \in 1..(Len(buf) \div itemsize) |->
        SubSeq(buf, (i - 1) * itemsize + 1, i * itemsize)]

\* numpy.frombuffer(buf, dtype=md["dtype"]): a one-dimensional array over the
\* whole buffer.  Raises TypeError for a name that is no dtype and ValueError
\* when the buffer size is no multiple of the element size.
FromBuffer(buf, dtype) ==
    IF dtype \notin DOMAIN ItemSize
    THEN Failure("UnsupportedElementType")
    ELSE IF Len(buf) % ItemSize[dtype] # 0
    THEN Failure("SizeMismatch")
    ELSE [error |-> "none", dtype |-> dtype,
          shape |-> <<Len(buf) \div ItemSize[dtype]>>,
          data  |-> Elements(buf, ItemSize[dtype])]

\* The entries of a shape that ask numpy to infer the dimension.
Unknown(shape) == {i \in DOMAIN shape : shape[i] = -1}

\* The product of the entries of a shape that are given.
RECURSIVE KnownProduct(_)
KnownProduct(s) ==
    IF s = <<>> THEN 1
    ELSE (IF Head(s) = -1 THEN 1 ELSE Head(s)) * KnownProduct(Tail(s))

\* A.reshape(md["shape"]).  numpy raises ValueError for an entry below -1,
\* for more than one -1, and when the sizes do not agree; one entry of -1 is
\* inferred from the size of the array.
Reshape(A, shape) ==
    LET size  == Len(A.data)
        known == KnownProduct(shape)
    IN  IF \E i \in DOMAIN shape : shape[i] < -1
        THEN Failure("SizeMismatch")
        ELSE IF Cardinality(Unknown(shape)) > 1
        THEN Failure("SizeMismatch")
        ELSE IF Cardinality(Unknown(shape)) = 1
        THEN IF known = 0 \/ size % known # 0
             THEN Failure("SizeMismatch")
             ELSE [error |-> "none", dtype |-> A.dtype,
                   shape |-> [i \in DOMAIN shape |->
                                 IF shape[i] = -1 THEN size \div known
                                 ELSE shape[i]],
                   data  |-> A.data]
        ELSE IF Product(shape) # size
        THEN Failure("SizeMismatch")
        ELSE [error |-> "none", dtype |-> A.dtype, shape |-> shape,
              data |-> A.data]

\* Lines 49-51 of recv_array: the array of a header md and a message msg.
Decode(md, msg) ==
    LET A == FromBuffer(msg, md.dtype)
    IN  IF A.error # "none" THEN A ELSE Reshape(A, md.shape)


(***************************************************************************)
(* The RemoteBot object, its socket and the remote endpoint.               *)
(***************************************************************************)
VARIABLES
    pc,             \* where the caller is: "new" (no object yet), "idle"
                    \* (between calls), "recv_json" and "recv" (blocked in
                    \* recv_array), "dead" (the constructor raised)
    call,           \* the call in progress, NoCall between calls: its name
                    \* ("ctor", "reset", "step") and the action given to step
    socket,         \* self.socket: "none" or "open"
    img,            \* self.img, NoImg while it is not set
    step_count,     \* self.step_count
    obs_width,      \* self.obs_width
    obs_height,     \* self.obs_height
    render_mode,    \* self.render_mode
    window,         \* self.window: "none", "open" or "closed"
    md,             \* recv_array's md, between recv_json and recv
    c2s,            \* commands written to the socket, not yet taken by the peer
    s2c,            \* message parts the peer sent, not yet received
    reachable,      \* whether the endpoint of addr_str is up
    ret,            \* what the last completed call returned or raised
    ncalls,         \* history: calls made after the constructor
    nsent,          \* history: commands written to the socket
    nread,          \* history: reply payloads received from the socket
    cur,            \* history: the number of the command the call in progress wrote
    failed          \* history: some call has raised

VARIABLES
    cd_header,      \* codec specification: the header given to Decode
    cd_payload,     \* codec specification: the message given to Decode
    cd_result       \* codec specification: what Decode produced

VARIABLES
    mutex,          \* two callers of one object: the caller holding the lock
                    \* around its call, 0 while the lock is free
    owner           \* history: owner[n] is the caller whose call wrote command n
                    \* (0: the thread that constructed the object)

VARIABLES
    env,            \* simulated environments: the class whose step is called
    base,           \* what super().step(action) returned
    near,           \* what self.near(self.box) returns after it
    goal,           \* what self._reward() returns
    result          \* what step returned

session == <<pc, call, socket, img, step_count, obs_width, obs_height,
             render_mode, window, md, c2s, s2c, reachable, ret,
             ncalls, nsent, nread, cur, failed>>
codec == <<cd_header, cd_payload, cd_result>>
sharing == <<mutex, owner>>
environment == <<env, base, near, goal, result>>
vars == <<session, codec, sharing, environment>>

\* MiniWorldEnv.Actions, by value: the members the specification names.
Actions == <<"turn_left", "turn_right", "move_forward">>

\* The values RemoteBot.Actions(action) accepts: an IntEnum counts from 0.
ValidAction(action) == action \in 0..(Len(Actions) - 1)

\* RemoteBot.Actions(action).name
ActionName(action) == Actions[action + 1]

\* The arguments the model gives the constructor and step.
ObsWidths == {1, 2}
ObsHeights == {1}
RenderModes == {"None", "rgb_array", "human"}
Addresses == {"valid", "invalid"}
ActionArgs == -1..Len(Actions)

NoCall == [name |-> "none", arg |-> 0]
NoImg == [dtype |-> "none", shape |-> <<>>, data |-> <<>>, reply_to |-> 0]
NoHeader == [dtype |-> "none", shape |-> <<>>]
Nothing == [none |-> TRUE]
NoResult == [call |-> "none", error |-> "none", at |-> "none", value |-> Nothing]

\* Mutation of ResetMsg: the two sizes are exchanged.
SwappedResetMsg(w, h) ==
    [command |-> "reset", obs_width |-> h, obs_height |-> w]

\* The two commands of reset and step.
ResetMsg(w, h) == [command |-> "reset", obs_width |-> w, obs_height |-> h]
ActionMsg(name) == [command |-> "action", action |-> name]

\* What reset and step return.
ResetResult(frame) == [obs |-> frame, info |-> {}]

\* Mutation of StepResult: a step that rewards and ends the episode, as the
\* simulated environments do at their goal.
RewardingStepResult(frame) ==
    [obs |-> frame, reward |-> 1, termination |-> TRUE,
     truncation |-> FALSE, info |-> {}]

StepResult(frame) ==
    [obs |-> frame, reward |-> 0, termination |-> FALSE,
     truncation |-> FALSE, info |-> {}]

\* The session state of the specification, as the code holds it: there is a
\* session while the object exists (self.socket is never closed or dropped),
\* and a reply is awaited while a call is blocked in recv_array.
Session ==
    IF pc \in {"new", "dead"} THEN "Disconnected"
    ELSE IF pc \in {"recv_json", "recv"} THEN "AwaitingReply"
    ELSE "Connected"

SessionInit ==
    /\ pc = "new"
    /\ call = NoCall
    /\ socket = "none"
    /\ img = NoImg
    /\ step_count = 0
    /\ obs_width = 0
    /\ obs_height = 0
    /\ render_mode = "None"
    /\ window = "none"
    /\ md = NoHeader
    /\ c2s = <<>>
    /\ s2c = <<>>
    /\ reachable = FALSE
    /\ ret = NoResult
    /\ ncalls = 0
    /\ nsent = 0
    /\ nread = 0
    /\ cur = 0
    /\ failed = FALSE

\* No caller shares the object yet.
SharingInit ==
    /\ mutex = 0
    /\ owner = <<>>

\* No simulated environment is stepped.
EnvironmentIdle ==
    /\ env = "none"
    /\ base = Nothing
    /\ near = FALSE
    /\ goal = 0
    /\ result = Nothing

Init ==
    /\ SessionInit
    /\ cd_header = NoHeader
    /\ cd_payload = <<>>
    /\ cd_result = Failure("pending")
    /\ SharingInit
    /\ EnvironmentIdle

\* An exception leaves call c at place `at`: it reaches the caller, and out of
\* the constructor it leaves no object behind.
Raise(c, err, at) ==
    /\ pc' = IF c.name = "ctor" THEN "dead" ELSE "idle"
    /\ call' = NoCall
    /\ ret' = [call |-> c.name, error |-> err, at |-> at, value |-> Nothing]
    /\ failed' = TRUE

\* self.socket.send_json(msg) in call c: the command is written, or the socket
\* raises and nothing is written.
SendJson(c, msg) ==
    \/ /\ c2s' = Append(c2s, [msg |-> msg, seq |-> nsent + 1])
       /\ nsent' = nsent + 1
       /\ cur' = nsent + 1
       /\ pc' = "recv_json"
       /\ call' = c
       /\ UNCHANGED <<ret, failed>>
    \/ /\ Raise(c, "ConnectionError", "send_json")
       /\ UNCHANGED <<c2s, nsent, cur>>

\* RemoteBot.__init__ up to the send_json of its reset().  zmq's connect
\* raises for an address it cannot parse; it does not wait for the endpoint.
Construct(addr, up, w, h, mode) ==
    /\ pc = "new"
    /\ obs_width' = w
    /\ obs_height' = h
    /\ render_mode' = mode
    /\ reachable' = up
    /\ UNCHANGED <<img, window, md, s2c, ncalls, nread, codec>>
    /\ IF addr = "invalid"
       THEN /\ Raise([name |-> "ctor", arg |-> 0], "ConnectionError", "connect")
            /\ UNCHANGED <<socket, step_count, c2s, nsent, cur>>
       ELSE /\ socket' = "open"
            /\ step_count' = 0
            /\ SendJson([name |-> "ctor", arg |-> 0], ResetMsg(w, h))

\* Mutation of Reset: the step count is not set back.
ResetKeepingCount ==
    /\ pc = "idle"
    /\ ncalls < MaxCalls
    /\ ncalls' = ncalls + 1
    /\ SendJson([name |-> "reset", arg |-> 0],
                ResetMsg(obs_width, obs_height))
    /\ UNCHANGED <<socket, img, step_count, obs_width, obs_height,
                   render_mode, window, md, s2c, reachable, nread, codec>>

\* RemoteBot.reset up to its send_json.
Reset ==
    /\ pc = "idle"
    /\ ncalls < MaxCalls
    /\ ncalls' = ncalls + 1
    /\ step_count' = 0
    /\ SendJson([name |-> "reset", arg |-> 0],
                ResetMsg(obs_width, obs_height))
    /\ UNCHANGED <<socket, img, obs_width, obs_height, render_mode, window,
                   md, s2c, reachable, nread, codec>>

\* Mutation of Step: the message is built without the enumeration lookup.
UncheckedStep(action) ==
    /\ pc = "idle"
    /\ ncalls < MaxCalls
    /\ ncalls' = ncalls + 1
    /\ SendJson([name |-> "step", arg |-> action],
                ActionMsg(IF ValidAction(action)
                          THEN ActionName(action) ELSE "unknown"))
    /\ UNCHANGED <<socket, img, step_count, obs_width, obs_height,
                   render_mode, window, md, s2c, reachable, nread, codec>>

\* RemoteBot.step up to its send_json: the message is built first, and the
\* enumeration lookup raises ValueError for a value that is no member.
Step(action) ==
    /\ pc = "idle"
    /\ ncalls < MaxCalls
    /\ ncalls' = ncalls + 1
    /\ IF ValidAction(action)
       THEN SendJson([name |-> "step", arg |-> action],
                     ActionMsg(ActionName(action)))
       ELSE /\ Raise([name |-> "step", arg |-> action],
                     "InvalidAction", "action")
            /\ UNCHANGED <<c2s, nsent, cur>>
    /\ UNCHANGED <<socket, img, step_count, obs_width, obs_height,
                   render_mode, window, md, s2c, reachable, nread, codec>>

\* md = socket.recv_json(): a header part is taken; a part that is no JSON text
\* is taken and raises; the socket raises and nothing is taken.
RecvJson ==
    /\ pc = "recv_json"
    /\ \/ /\ s2c # <<>>
          /\ Head(s2c).part = "json"
          /\ md' = Head(s2c).md
          /\ s2c' = Tail(s2c)
          /\ pc' = "recv"
          /\ UNCHANGED <<call, ret, failed>>
       \/ /\ s2c # <<>>
          /\ Head(s2c).part = "raw"
          /\ s2c' = Tail(s2c)
          /\ Raise(call, "MalformedHeader", "recv_json")
          /\ UNCHANGED md
       \/ /\ Raise(call, "ConnectionError", "recv_json")
          /\ UNCHANGED <<md, s2c>>
    /\ UNCHANGED <<socket, img, step_count, obs_width, obs_height,
                   render_mode, window, c2s, reachable, ncalls, nsent, nread,
                   cur, codec>>

\* Mutation of StoreFrame: the received array is not kept.
StaleFrame(old, new) == old

\* _recv_frame's assignment, self.img = img.
StoreFrame(old, new) == new

\* msg = socket.recv(), the rest of recv_array, self.img = img, and the rest
\* of the call: step counts the step; both return self.img.
Recv ==
    /\ pc = "recv"
    /\ \/ /\ s2c # <<>>
          /\ Head(s2c).part = "raw"
          /\ s2c' = Tail(s2c)
          /\ nread' = nread + 1
          /\ LET A == Decode(md, Head(s2c).msg)
                 frame == [dtype |-> A.dtype, shape |-> A.shape,
                           data |-> A.data, reply_to |-> Head(s2c).reply_to]
             IN  IF A.error # "none"
                 THEN /\ Raise(call, A.error, "decode")
                      /\ UNCHANGED <<img, step_count>>
                 ELSE /\ img' = StoreFrame(img, frame)
                      /\ step_count' = IF call.name = "step"
                                       THEN step_count + 1
                                       ELSE step_count
                      /\ ret' = [call |-> call.name, error |-> "none",
                                 at |-> "none",
                                 value |-> IF call.name = "step"
                                           THEN StepResult(img')
                                           ELSE ResetResult(img')]
                      /\ pc' = "idle"
                      /\ call' = NoCall
                      /\ UNCHANGED failed
       \/ /\ Raise(call, "ConnectionError", "recv")
          /\ UNCHANGED <<img, step_count, s2c, nread>>
    /\ md' = NoHeader
    /\ UNCHANGED <<socket, obs_width, obs_height, render_mode, window, c2s,
                   reachable, ncalls, nsent, cur, codec>>

\* RemoteBot.close: the window is closed when there is one.
Close ==
    /\ pc = "idle"
    /\ ncalls < MaxCalls
    /\ ncalls' = ncalls + 1
    /\ window' = IF window = "open" THEN "closed" ELSE window
    /\ ret' = [call |-> "close", error |-> "none", at |-> "none",
               value |-> Nothing]
    /\ UNCHANGED <<pc, call, socket, img, step_count, obs_width, obs_height,
                   render_mode, md, c2s, s2c, reachable, nsent, nread, cur,
                   failed, codec>>

\* Mutation of Render: rgb_array mode returns self.latest_img, which the
\* constructor sets to None and nothing assigns again.
RenderLatestImg ==
    /\ pc = "idle"
    /\ ncalls < MaxCalls
    /\ ncalls' = ncalls + 1
    /\ window' = IF render_mode \in {"None", "rgb_array"} \/ window # "none"
                 THEN window ELSE "open"
    /\ ret' = [call |-> "render", error |-> "none", at |-> "none",
               value |-> IF render_mode = "rgb_array"
                         THEN [obs |-> NoImg] ELSE Nothing]
    /\ UNCHANGED <<pc, call, socket, img, step_count, obs_width, obs_height,
                   render_mode, md, c2s, s2c, reachable, nsent, nread, cur,
                   failed, codec>>

\* RemoteBot.render: None without a render mode, self.img in rgb_array mode,
\* and otherwise the image is drawn in the window, made on the first call;
\* drawing reads img.shape[1], which an array of one dimension does not have.
Render ==
    /\ pc = "idle"
    /\ ncalls < MaxCalls
    /\ ncalls' = ncalls + 1
    /\ window' = IF render_mode \in {"None", "rgb_array"} \/ window # "none"
                 THEN window ELSE "open"
    /\ IF render_mode \notin {"None", "rgb_array"} /\ Len(img.shape) < 2
       THEN Raise([name |-> "render", arg |-> 0], "IndexError", "render")
       ELSE /\ ret' = [call |-> "render", error |-> "none", at |-> "none",
                       value |-> IF render_mode = "rgb_array"
                                 THEN [obs |-> img] ELSE Nothing]
            /\ UNCHANGED <<pc, call, failed>>
    /\ UNCHANGED <<socket, img, step_count, obs_width, obs_height,
                   render_mode, md, c2s, s2c, reachable, nsent, nread, cur,
                   codec>>

(***************************************************************************)
(* The remote endpoint: it answers each command with a header part and a   *)
(* payload part, of any declared type and shape and any length.            *)
(***************************************************************************)
Zeros(n) == [i \in 1..n |-> 0]
ObsShape == <<obs_height, obs_width, 3>>
ObsBytes == obs_height * obs_width * 3
ServerReplies ==
    {[md |-> [dtype |-> "uint8", shape |-> ObsShape], msg |-> Zeros(ObsBytes)],
     [md |-> [dtype |-> "uint8", shape |-> ObsShape],
      msg |-> Zeros(ObsBytes - 1)],
     [md |-> [dtype |-> "uint8", shape |-> <<-1, 3>>], msg |-> Zeros(ObsBytes)],
     [md |-> [dtype |-> "uint8", shape |-> <<ObsBytes>>],
      msg |-> Zeros(ObsBytes)],
     [md |-> [dtype |-> "bogus", shape |-> ObsShape], msg |-> Zeros(ObsBytes)]}

ServerReply(reply) ==
    /\ reachable
    /\ c2s # <<>>
    /\ c2s' = Tail(c2s)
    /\ s2c' = s2c \o
              << [part |-> "json", md |-> reply.md,
                  reply_to |-> Head(c2s).seq],
                 [part |-> "raw", msg |-> reply.msg,
                  reply_to |-> Head(c2s).seq] >>
    /\ UNCHANGED <<pc, call, socket, img, step_count, obs_width, obs_height,
                   render_mode, window, md, reachable, ret, ncalls, nsent,
                   nread, cur, failed, codec>>

\* The endpoint comes up.
EndpointUp ==
    /\ pc \notin {"new", "dead"}
    /\ ~reachable
    /\ reachable' = TRUE
    /\ UNCHANGED <<pc, call, socket, img, step_count, obs_width, obs_height,
                   render_mode, window, md, c2s, s2c, ret, ncalls, nsent,
                   nread, cur, failed, codec>>

\* One thread uses the object: nothing is shared, no environment is stepped.
Next ==
    \/ /\ \E addr \in Addresses, up \in BOOLEAN, w \in ObsWidths,
             h \in ObsHeights, mode \in RenderModes :
               Construct(addr, up, w, h, mode)
       /\ UNCHANGED <<sharing, environment>>
    \/ Reset /\ UNCHANGED <<sharing, environment>>
    \/ /\ \E action \in ActionArgs : Step(action)
       /\ UNCHANGED <<sharing, environment>>
    \/ RecvJson /\ UNCHANGED <<sharing, environment>>
    \/ Recv /\ UNCHANGED <<sharing, environment>>
    \/ Close /\ UNCHANGED <<sharing, environment>>
    \/ Render /\ UNCHANGED <<sharing, environment>>
    \/ /\ \E reply \in ServerReplies : ServerReply(reply)
       /\ UNCHANGED <<sharing, environment>>
    \/ EndpointUp /\ UNCHANGED <<sharing, environment>>

Spec == Init /\ [][Next]_vars

\* The same program with the scheduling a blocking receive has: the endpoint
\* answers a command it has taken, and a call blocked in recv_json or recv
\* takes a part that has arrived.  Nothing obliges the endpoint to come up,
\* nor the socket to raise.
FairSpec ==
    /\ Spec
    /\ WF_vars(/\ \E reply \in ServerReplies : ServerReply(reply)
               /\ UNCHANGED <<sharing, environment>>)
    /\ WF_vars(RecvJson /\ s2c' # s2c /\ UNCHANGED <<sharing, environment>>)
    /\ WF_vars(Recv /\ s2c' # s2c /\ UNCHANGED <<sharing, environment>>)

(***************************************************************************)
(* Two callers share one object, each taking a lock around its whole call  *)
(* of reset or step.  The class holds no lock of its own.                  *)
(***************************************************************************)
Callers == {1, 2}

\* The call of caller c wrote a command, or none.
Wrote(c) == owner' = IF nsent' # nsent THEN Append(owner, c) ELSE owner

\* Caller c holds the lock until its call has returned or raised.
Held(c) == mutex' = IF pc' \in {"recv_json", "recv"} THEN c ELSE 0

SharedConstruct(up, w, h) ==
    /\ Construct("valid", up, w, h, "None")
    /\ Wrote(0)
    /\ UNCHANGED mutex

SharedReset(c) ==
    /\ mutex = 0
    /\ Reset
    /\ Wrote(c)
    /\ Held(c)

SharedStep(c, action) ==
    /\ mutex = 0
    /\ Step(action)
    /\ Wrote(c)
    /\ Held(c)

SharedRecvJson ==
    /\ RecvJson
    /\ Held(mutex)
    /\ UNCHANGED owner

SharedRecv ==
    /\ Recv
    /\ Held(mutex)
    /\ UNCHANGED owner

SharedNext ==
    \/ /\ \E up \in BOOLEAN, w \in ObsWidths, h \in ObsHeights :
               SharedConstruct(up, w, h)
       /\ UNCHANGED environment
    \/ /\ \E c \in Callers : SharedReset(c)
       /\ UNCHANGED environment
    \/ /\ \E c \in Callers, action \in ActionArgs : SharedStep(c, action)
       /\ UNCHANGED environment
    \/ SharedRecvJson /\ UNCHANGED environment
    \/ SharedRecv /\ UNCHANGED environment
    \/ /\ \E reply \in ServerReplies : ServerReply(reply)
       /\ UNCHANGED <<sharing, environment>>
    \/ EndpointUp /\ UNCHANGED <<sharing, environment>>

SharedSpec == Init /\ [][SharedNext]_vars

(***************************************************************************)
(* The simulated environments: the step of Hallway, SimToRealGoTo and      *)
(* ThreeRooms, applied to whatever MiniWorldEnv.step, self.near and        *)
(* self._reward return.                                                    *)
(***************************************************************************)
Envs == {"Hallway", "SimToRealGoTo", "ThreeRooms"}

\* What super().step(action) may return: obs, reward, termination,
\* truncation, info.
BaseResults ==
    [obs : {0, 1}, reward : 0..MaxReward, termination : BOOLEAN,
     truncation : BOOLEAN, info : {{}}]

\* What self._reward() may return.
GoalRewards == 1..MaxReward

\* Mutation of Hallway_step: the goal is rewarded but the episode goes on.
Hallway_step_unending(b, n, g) ==
    IF n THEN [b EXCEPT !.reward = @ + g] ELSE b

\* Hallway.step: b is what super().step returned, n what self.near(self.box)
\* returns and g what self._reward() returns.
Hallway_step(b, n, g) ==
    IF n THEN [b EXCEPT !.reward = @ + g, !.termination = TRUE] ELSE b

\* SimToRealGoTo.step
SimToRealGoTo_step(b, n, g) ==
    IF n THEN [b EXCEPT !.reward = @ + g, !.termination = TRUE] ELSE b

\* ThreeRooms.step
ThreeRooms_step(b, n, g) == b

EnvInit ==
    /\ SessionInit
    /\ cd_header = NoHeader
    /\ cd_payload = <<>>
    /\ cd_result = Failure("pending")
    /\ SharingInit
    /\ env \in Envs
    /\ base \in BaseResults
    /\ near \in BOOLEAN
    /\ goal \in GoalRewards
    /\ result = Nothing

EnvStep ==
    /\ result = Nothing
    /\ result' = CASE env = "Hallway" -> Hallway_step(base, near, goal)
                   [] env = "SimToRealGoTo" ->
                        SimToRealGoTo_step(base, near, goal)
                   [] env = "ThreeRooms" -> ThreeRooms_step(base, near, goal)
    /\ UNCHANGED <<session, codec, sharing, env, base, near, goal>>

EnvSpec == EnvInit /\ [][EnvStep]_vars

(***************************************************************************)
(* The codec specification: recv_array's decoding of one header and one    *)
(* message, for every header and message within the bounds.                *)
(***************************************************************************)
RECURSIVE SeqsUpTo(_, _)
SeqsUpTo(S, n) ==
    IF n = 0 THEN {<<>>}
    ELSE SeqsUpTo(S, n - 1) \cup
         {Append(q, x) : q \in {r \in SeqsUpTo(S, n - 1) : Len(r) = n - 1},
                         x \in S}

CodecDTypes == DOMAIN ItemSize \cup {"bogus"}
CodecShapes == SeqsUpTo(-2..MaxDim, MaxRank)
CodecPayloads == SeqsUpTo(0..MaxByte, MaxPayloadLen)

CodecInit ==
    /\ SessionInit
    /\ cd_header \in [dtype : CodecDTypes, shape : CodecShapes]
    /\ cd_payload \in CodecPayloads
    /\ cd_result = Failure("pending")
    /\ SharingInit
    /\ EnvironmentIdle

CodecDecode ==
    /\ cd_result.error = "pending"
    /\ cd_result' = Decode(cd_header, cd_payload)
    /\ UNCHANGED <<session, cd_header, cd_payload, sharing, environment>>

CodecSpec == CodecInit /\ [][CodecDecode]_vars


(***************************************************************************)
(* The claims.                                                             *)
(***************************************************************************)
\* The names of the members of the action enumeration.
ActionNames == {Actions[i] : i \in DOMAIN Actions}

\* C1: turn-taking.  In every reachable state at most one command is
\* outstanding: the socket never carries two commands with no reply read
\* between them.
C1_AtMostOneOutstanding == nsent - nread <= 1

\* C2: for every registry dtype, every shape and every payload, decoding
\* succeeds if and only if the payload length is product(shape) times the
\* element size of the dtype.
C2_DecodeIffExactLength ==
    (cd_result.error # "pending" /\ cd_header.dtype \in DOMAIN ItemSize) =>
        (cd_result.error = "none" <=>
            Len(cd_payload) =
                Product(cd_header.shape) * ItemSize[cd_header.dtype])

\* C3: once the channel has failed while a reply was being received, the
\* session is Disconnected and no later call writes a command.
C3_NoWriteAfterReceiveFailure ==
    [][(ret.error = "ConnectionError" /\ ret.at \in {"recv_json", "recv"}) =>
          (Session = "Disconnected" /\ nsent' = nsent)]_vars

\* C4: a step whose action is no member of the action enumeration raises
\* before anything is built or sent: it awaits no reply, it leaves the socket
\* and the object as they were, and no command naming anything but a member
\* is ever on the channel.
C4_InvalidActionNotSent ==
    /\ [](call.name = "step" => ValidAction(call.arg))
    /\ [](\A i \in DOMAIN c2s :
            c2s[i].msg.command = "action" => c2s[i].msg.action \in ActionNames)
    /\ [][(ncalls' # ncalls /\ call' = NoCall /\ ret'.error = "InvalidAction") =>
            /\ ret'.call = "step"
            /\ pc' = pc
            /\ UNCHANGED <<socket, img, step_count, md, c2s, s2c, nsent,
                           nread>>]_vars

\* A step was given an action outside the enumeration and raised.
C4_Witness ==
    /\ ret.call = "step"
    /\ ret.error = "InvalidAction"
    /\ nsent = 1
    /\ ncalls = 1

\* C5: a reply that fails to decode leaves the session Disconnected and the
\* cached frame as it was, and returns no frame.
C5_DecodeFailureDisconnects ==
    [][(pc = "recv" /\ pc' # "recv" /\ ret'.at = "decode") =>
          /\ img' = img
          /\ ret'.value = Nothing
          /\ Session' = "Disconnected"]_vars

\* C6: every error is fatal to the session: after a call has raised, the
\* session is Disconnected.
C6_EveryErrorDisconnects ==
    (ret.error # "none" /\ call = NoCall) => Session = "Disconnected"

C8_UnreachableConnectFails ==
    (pc # "new" /\ ~reachable) =>
        /\ pc = "dead"
        /\ ret.error = "ConnectionError"
        /\ nsent = 0

\* C9: after close the session is Disconnected and holds no socket.
C9_CloseReleasesChannel ==
    ret.call = "close" => (Session = "Disconnected" /\ socket = "none")

\* C10: a step that returns, returns the cached frame, reward 0, termination
\* false, truncation false and an empty info.
C10_StepResultNeutral ==
    (ret.call = "step" /\ ret.error = "none") =>
        /\ ret.value.obs = img
        /\ ret.value.reward = 0
        /\ ret.value.termination = FALSE
        /\ ret.value.truncation = FALSE
        /\ ret.value.info = {}

\* Two steps in a row have returned.
C10_Witness ==
    /\ ret.call = "step"
    /\ ret.error = "none"
    /\ step_count = 2


\* C11: every message written to the channel is a reset command carrying the
\* obs_width and obs_height of the construction, or an action command naming
\* a member of the action enumeration; the two sizes never change once the
\* object is constructed.
C11_CommandsWellFormed ==
    /\ [](\A i \in DOMAIN c2s :
            \/ c2s[i].msg = [command |-> "reset", obs_width |-> obs_width,
                             obs_height |-> obs_height]
            \/ /\ DOMAIN c2s[i].msg = {"command", "action"}
               /\ c2s[i].msg.command = "action"
               /\ c2s[i].msg.action \in ActionNames)
    /\ [][pc # "new" => UNCHANGED <<obs_width, obs_height>>]_vars

\* A reset written after the construction and a step written after it are
\* both on the channel, of an object whose width and height differ.
C11_Witness ==
    /\ obs_width # obs_height
    /\ Len(c2s) >= 2
    /\ \E i \in DOMAIN c2s : c2s[i].msg.command = "reset" /\ c2s[i].seq > 1
    /\ \E i \in DOMAIN c2s : c2s[i].msg.command = "action"


\* C12: every frame that is cached is of 8-bit unsigned integers and of a
\* shape (height, width, 3) of positive entries, and holds as many bytes as
\* the shape asks for.
C12_FrameInvariant ==
    img # NoImg =>
        /\ img.dtype = "uint8"
        /\ Len(img.shape) = 3
        /\ \A i \in DOMAIN img.shape : img.shape[i] > 0
        /\ img.shape[3] = 3
        /\ Len(img.data) * ItemSize[img.dtype] = Product(img.shape)


\* C13: the channel is read only while a reply is awaited, each read answers
\* the one command that is unanswered, and a command is written only when
\* every command before it was answered: the trace of the channel is command,
\* header, payload, command, header, payload, and so on.
C13_StrictAlternation ==
    [][/\ nsent' # nsent => nsent = nread
       /\ Len(s2c') < Len(s2c) =>
            /\ Session = "AwaitingReply"
            /\ nsent = nread + 1]_vars

\* C14: the request/reply protocol does not deadlock: every reset and step
\* call, the constructor's reset included, eventually returns (the session
\* does not stay in AwaitingReply forever), and it returns either with the
\* Frame and the session Connected or with an error and the session
\* Disconnected.
C14_NoDeadlock ==
    /\ (Session = "AwaitingReply") ~> (Session # "AwaitingReply")
    /\ [][(Session = "AwaitingReply" /\ Session' # "AwaitingReply") =>
            \/ /\ ret'.error = "none"
               /\ ret'.value.obs = img'
               /\ Session' = "Connected"
            \/ /\ ret'.error # "none"
               /\ Session' = "Disconnected"]_vars

\* C15: when two callers share the object and each holds a lock around its
\* call, at most one command is outstanding under every interleaving, and a
\* caller whose call succeeds is given the frame decoded from the reply to
\* the command its own call wrote, never from the reply to the other's.
C15_SharedTurnTaking ==
    /\ [](nsent - nread <= 1)
    /\ [][(mutex # 0 /\ mutex' = 0 /\ ret'.error = "none") =>
            owner[img'.reply_to] = mutex]_vars

\* C16: step_count is the number of steps that have returned since the last
\* reset began: a step that returns adds one, a step that raises (invalid
\* action, channel failure, decode failure) leaves it as it was, nothing else
\* changes it, and reset sets it to 0 before it writes its command, so that
\* it is 0 while the reset is in progress and after the reset has raised.
C16_StepCount ==
    /\ [](call.name \in {"ctor", "reset"} => step_count = 0)
    /\ []((call = NoCall /\ ret.call = "reset") => step_count = 0)
    /\ [][IF pc = "recv" /\ call.name = "step" /\ pc' = "idle"
             /\ ret'.error = "none"
          THEN step_count' = step_count + 1
          ELSE IF ncalls' # ncalls
                  /\ (call'.name = "reset"
                      \/ (call' = NoCall /\ ret'.call = "reset"))
               THEN step_count' = 0
               ELSE step_count' = step_count]_vars

\* After one step had returned, the reply to a second step failed to decode.
C16_Witness ==
    /\ ret.call = "step"
    /\ ret.at = "decode"
    /\ call = NoCall
    /\ step_count = 1

\* C17: every frame that the constructor's reset, reset or step returns has
\* the shape (obs_height, obs_width, 3) of the observation space, whatever
\* shape the reply header declares.
C17_ObservationShape ==
    (ret.call \in {"ctor", "reset", "step"} /\ ret.error = "none") =>
        ret.value.obs.shape = ObsShape

\* C18: render never touches the channel or the session: it writes no
\* command, reads no reply and leaves the cached frame, the session state and
\* step_count as they were; in rgb_array mode it returns the cached frame,
\* the one the last successful reset or step stored; and once the
\* construction has completed there is a cached frame.
C18_RenderIsPure ==
    /\ []((pc \notin {"new", "dead"} /\ call.name # "ctor") => img # NoImg)
    /\ [][img' # img =>
            /\ pc = "recv"
            /\ ret'.call \in {"ctor", "reset", "step"}
            /\ ret'.error = "none"
            /\ ret'.value.obs = img']_vars
    /\ [][(ncalls' # ncalls /\ call' = NoCall /\ ret'.call = "render") =>
            /\ UNCHANGED <<pc, socket, img, step_count, md, c2s, s2c, nsent,
                           nread>>
            /\ Session' = Session
            /\ render_mode = "rgb_array" =>
                  /\ ret'.error = "none"
                  /\ ret'.value = [obs |-> img]
                  /\ img # NoImg]_vars

\* In rgb_array mode render returned the frame of the reset that followed the
\* construction.
C18_Witness ==
    /\ ret.call = "render"
    /\ render_mode = "rgb_array"
    /\ ret.value.obs.reply_to = 2
    /\ img.reply_to = 2

\* C19: in Hallway and SimToRealGoTo, when the agent is near the box after
\* the base step, step returns termination true and the base step's reward
\* plus the goal reward, with the base step's observation, truncation and
\* info; when the agent is not near the box, and in ThreeRooms always, step
\* returns what the base step returned.
C19_GoalStep ==
    result # Nothing =>
        /\ (env \in {"Hallway", "SimToRealGoTo"} /\ near) =>
              /\ result.termination = TRUE
              /\ result.reward = base.reward + goal
              /\ result.obs = base.obs
              /\ result.truncation = base.truncation
              /\ result.info = base.info
        /\ (env = "ThreeRooms" \/ ~near) => result = base

\* Hallway's step ended an episode that the base step had left running.
C19_Witness ==
    /\ result # Nothing
    /\ env = "Hallway"
    /\ near
    /\ ~base.termination
    /\ result.termination
    /\ result.reward > base.reward

====
